---- MODULE Spec2Model ----
(***************************************************************************)
(* Model of sized.gen: the SizedGenerator wrapper (send / throw / __len__) *)
(* and the sized() decorator with its argument-dict resolution.            *)
(*                                                                         *)
(* Python values are modelled as follows.                                  *)
(*   - argument values and defaults are small naturals; `null` is the      *)
(*     module's private sentinel object, distinct from all of them;        *)
(*   - a dict is a sequence of <<key, value>> pairs in insertion order;    *)
(*   - a size-like value is [kind, n]: kind "int" is the integer n, kind   *)
(*     "sized" is an object whose len() is n, kind "other" is neither      *)
(*     (a float, a generator);                                             *)
(*   - a raised exception is [kind |-> "raise", exc, site, name]: its      *)
(*     type, the code that raised it and the parameter it names.           *)
(***************************************************************************)
EXTENDS Integers, Sequences, FiniteSets, TLC

\* ------------------------------------------------------------- bounds
MaxParams == 2   \* declared parameters of the decorated function
MaxVal == 1      \* argument values and defaults are 0..MaxVal
MaxSize == 2     \* fixed int / Sized size specifications are at most MaxSize

MaxArgs == MaxParams        \* positional arguments of a call
MaxItems == MaxSize + 2     \* items the underlying generator produces

Vals == 0..MaxVal

\* ------------------------------------------------------------- values
null == -99

Names == <<"a", "b", "c", "d">>
Digits == <<"0", "1", "2", "3", "4", "5">>

\* str(idx) of a small non-negative int
str(idx) == Digits[idx + 1]

Range(s) == {s[i] : i \in DOMAIN s}

SeqsUpTo(S, n) == UNION {[1..k -> S] : k \in 0..n}

NoRet == [kind |-> "none", v |-> 0, exc |-> "", site |-> "", name |-> ""]
Value(x) == [kind |-> "value", v |-> x, exc |-> "", site |-> "", name |-> ""]
Raise(e, where, nm) == [kind |-> "raise", v |-> 0, exc |-> e, site |-> where, name |-> nm]

\* ------------------------------------------------------------- dicts
DictKeys(d) == {d[i][1] : i \in DOMAIN d}

DictIdx(d, k) == CHOOSE i \in DOMAIN d : d[i][1] = k

DictGet(d, k) == d[DictIdx(d, k)][2]

\* d[k] = v : an existing key keeps its position, a new key is appended
DictSet(d, k, v) ==
    IF k \in DictKeys(d)
    THEN [d EXCEPT ![DictIdx(d, k)] = <<k, v>>]
    ELSE Append(d, <<k, v>>)

\* ------------------------------------------------------------- _get_size
IsSizeLike(size) == size.kind \in {"int", "sized"}

\* _get_size that takes a negative int for 0
_get_sizeClamped(size) ==
    IF size.kind = "int" THEN Value(IF size.n < 0 THEN 0 ELSE size.n)
    ELSE IF size.kind = "sized" THEN Value(size.n)
    ELSE Raise("TypeError", "_get_size", "")

_get_size(size) ==
    IF size.kind = "int" THEN Value(size.n)
    ELSE IF size.kind = "sized" THEN Value(size.n)
    ELSE Raise("TypeError", "_get_size", "")

\* The size callables: lambda x: x[key], the looked-up argument being an int,
\* a Sized of that length, or neither.
CallSize(size, fn_dict) ==
    IF size.key \in DictKeys(fn_dict)
    THEN [ok |-> TRUE, val |-> [kind |-> size.ret, n |-> DictGet(fn_dict, size.key)]]
    ELSE [ok |-> FALSE, val |-> [kind |-> "other", n |-> 0]]

_size_call(size, fn_dict) ==
    LET size_like == CallSize(size, fn_dict)
    IN  IF size_like.ok THEN _get_size(size_like.val)
        ELSE Raise("KeyError", "size", size.key)

\* ------------------------------------------------------------- _get_keywords
_get_keywords(func, kwargs) ==
    LET args_size == Len(func.args)
        defaults_size == Len(func.defaults)
        values == [i \in 1..(args_size - defaults_size) |-> null] \o func.defaults
    IN  [i \in 1..args_size |->
            <<func.args[i],
              IF func.args[i] \in DOMAIN kwargs THEN kwargs[func.args[i]] ELSE values[i]>>]

\* ------------------------------------------------------------- _resolve_args
RECURSIVE UpdatePositional(_, _, _)
UpdatePositional(d, args, idx) ==
    IF idx >= Len(args) THEN d
    ELSE UpdatePositional(DictSet(d, str(idx), args[idx + 1]), args, idx + 1)

\* the `for i, (k, v) in enumerate(arg_dict.items())` loop, from item i on
RECURSIVE FillNull(_, _, _)
FillNull(d, args, i) ==
    IF i >= Len(d) THEN [ok |-> TRUE, dict |-> d, name |-> ""]
    ELSE IF d[i + 1][2] = null
         THEN IF i < Len(args)
              THEN FillNull([d EXCEPT ![i + 1] = <<d[i + 1][1], args[i + 1]>>], args, i + 1)
              ELSE [ok |-> FALSE, dict |-> d, name |-> d[i + 1][1]]
         ELSE FillNull(d, args, i + 1)

\* _resolve_args without its check of the sentinels that are left
_resolve_argsUnchecked(func, args, kwargs) ==
    [ok |-> TRUE, dict |-> UpdatePositional(_get_keywords(func, kwargs), args, 0), name |-> ""]

_resolve_args(func, args, kwargs) ==
    LET arg_dict == _get_keywords(func, kwargs)
    IN  FillNull(UpdatePositional(arg_dict, args, 0), args, 0)

\* ------------------------------------------------------------- the call
\* Python's own binding of func(*args, **kwargs): no surplus positional
\* argument, no parameter given twice, every parameter without default given.
Binds(func, args, kwargs) ==
    /\ Len(args) <= Len(func.args)
    /\ DOMAIN kwargs \subseteq Range(func.args)
    /\ \A i \in 1..Len(func.args) :
          /\ ~(i <= Len(args) /\ func.args[i] \in DOMAIN kwargs)
          /\ (i <= Len(func.args) - Len(func.defaults))
                => (i <= Len(args) \/ func.args[i] \in DOMAIN kwargs)

\* lines 189-197 of wrapper: the size resolved for one call
Resolve(size, func, args, kwargs) ==
    IF IsSizeLike(size)
    THEN [res |-> _get_size(size), fn_dict |-> <<>>]
    ELSE IF size.kind = "callable"
    THEN LET m == _resolve_args(func, args, kwargs)
         IN  IF m.ok
             THEN [res |-> _size_call(size, m.dict), fn_dict |-> m.dict]
             ELSE [res |-> Raise("TypeError", "_resolve_args", m.name), fn_dict |-> <<>>]
    ELSE [res |-> Raise("TypeError", "wrapper", ""), fn_dict |-> <<>>]

\* ------------------------------------------------------------- the underlying generator
\* A generator object: state created / suspended / closed, and `pos`, the
\* number of items it has produced so far (the items are 0, 1, ... as range()
\* yields them). What its body does when resumed is the body's choice, the
\* `body` argument below: "yield" the next item, "return", or (when an
\* exception is thrown in at a yield) "propagate" it uncaught.
NoGen == [state |-> "none", pos |-> 0]
NotAGen == [state |-> "notgen", pos |-> 0]
NewGen == [state |-> "created", pos |-> 0]

\* resume the body: it yields its next item or returns
GenResume(g, body) ==
    IF body = "yield" /\ g.pos < MaxItems
    THEN [gen |-> [state |-> "suspended", pos |-> g.pos + 1], ret |-> Value(g.pos)]
    ELSE [gen |-> [g EXCEPT !.state = "closed"], ret |-> Raise("StopIteration", "gen", "")]

GenSend(g, value, body) ==
    IF g.state = "closed" THEN [gen |-> g, ret |-> Raise("StopIteration", "gen", "")]
    ELSE IF g.state = "created" /\ value # "None"
    THEN [gen |-> g, ret |-> Raise("TypeError", "gen", "")]
    ELSE GenResume(g, body)

GenThrow(g, exc, body) ==
    IF g.state = "suspended" /\ body # "propagate" THEN GenResume(g, body)
    ELSE [gen |-> [g EXCEPT !.state = "closed"], ret |-> Raise(exc, "gen", "")]

\* ------------------------------------------------------------- SizedGenerator
\* __init__ without its isinstance(gen, Generator) test
__init__Unchecked(gen, size_like) ==
    LET r == _get_size(size_like)
    IN  IF r.kind = "value"
        THEN [ok |-> TRUE, ret |-> NoRet, length |-> r.v, index |-> 0]
        ELSE [ok |-> FALSE, ret |-> r, length |-> 0, index |-> 0]

__init__(gen, size_like) ==
    IF gen.state \notin {"created", "suspended", "closed"}
    THEN [ok |-> FALSE, ret |-> Raise("TypeError", "__init__", ""), length |-> 0, index |-> 0]
    ELSE LET r == _get_size(size_like)
         IN  IF r.kind = "value"
             THEN [ok |-> TRUE, ret |-> NoRet, length |-> r.v, index |-> 0]
             ELSE [ok |-> FALSE, ret |-> r, length |-> 0, index |-> 0]

\* send that resumes the generator twice and returns the second result
sendSkips(gen, length, index, value, body) ==
    IF index > length
    THEN [gen |-> gen, index |-> index, touched |-> FALSE,
          ret |-> Raise("StopIteration", "send", "")]
    ELSE LET r == GenSend(GenSend(gen, value, body).gen, value, body)
         IN  [gen |-> r.gen, index |-> index + 1, touched |-> TRUE, ret |-> r.ret]

\* send that counts an item only once the generator has yielded it
sendCountsAfter(gen, length, index, value, body) ==
    IF index > length
    THEN [gen |-> gen, index |-> index, touched |-> FALSE,
          ret |-> Raise("StopIteration", "send", "")]
    ELSE LET r == GenSend(gen, value, body)
         IN  [gen |-> r.gen, index |-> IF r.ret.kind = "value" THEN index + 1 ELSE index,
              touched |-> TRUE, ret |-> r.ret]

\* send whose exhaustion test is one further off
sendLate(gen, length, index, value, body) ==
    IF index > length + 1
    THEN [gen |-> gen, index |-> index, touched |-> FALSE,
          ret |-> Raise("StopIteration", "send", "")]
    ELSE LET r == GenSend(gen, value, body)
         IN  [gen |-> r.gen, index |-> index + 1, touched |-> TRUE, ret |-> r.ret]

\* send without an exhaustion test
sendUnbounded(gen, length, index, value, body) ==
    LET r == GenSend(gen, value, body)
    IN  [gen |-> r.gen, index |-> index + 1, touched |-> TRUE, ret |-> r.ret]

send(gen, length, index, value, body) ==
    IF index > length
    THEN [gen |-> gen, index |-> index, touched |-> FALSE,
          ret |-> Raise("StopIteration", "send", "")]
    ELSE LET r == GenSend(gen, value, body)
         IN  [gen |-> r.gen, index |-> index + 1, touched |-> TRUE, ret |-> r.ret]

\* throw that applies send's exhaustion test before forwarding
throwGuarded(gen, length, index, exc, body) ==
    IF index > length
    THEN [gen |-> gen, index |-> index, touched |-> FALSE,
          ret |-> Raise("StopIteration", "throw", "")]
    ELSE LET r == GenThrow(gen, exc, body)
         IN  [gen |-> r.gen, index |-> index, touched |-> TRUE, ret |-> r.ret]

\* throw that counts the value the generator yields in response
throwCounts(gen, length, index, exc, body) ==
    LET r == GenThrow(gen, exc, body)
    IN  [gen |-> r.gen, index |-> IF r.ret.kind = "value" THEN index + 1 ELSE index,
         touched |-> TRUE, ret |-> r.ret]

throw(gen, length, index, exc, body) ==
    LET r == GenThrow(gen, exc, body)
    IN  [gen |-> r.gen, index |-> index, touched |-> TRUE, ret |-> r.ret]

\* close, which SizedGenerator inherits from collections.abc.Generator:
\* throw GeneratorExit in; GeneratorExit or StopIteration coming back is the
\* normal end, a yielded value is "generator ignored GeneratorExit"
close(gen, length, index, body) ==
    LET r == throw(gen, length, index, "GeneratorExit", body)
    IN  [gen |-> r.gen, index |-> r.index, touched |-> r.touched,
         ret |-> IF r.ret.kind = "value" THEN Raise("RuntimeError", "close", "")
                 ELSE IF r.ret.exc \in {"GeneratorExit", "StopIteration"} THEN NoRet
                 ELSE r.ret]

\* __len__ that reports the fixed size
__len__fixed(length, index) == length

__len__(length, index) == length - index

\* ------------------------------------------------------------- state
VARIABLES
    size,        \* the size specification the decorator closed over
    pc,          \* position of the decorated call: idle, resolved, invoked, live, failed
    func,        \* the decorated function's signature: spec.args, spec.defaults
    args,        \* *args of the call
    kwargs,      \* **kwargs of the call
    fn_dict,     \* the ArgDict handed to the size callable
    resolved,    \* the resolved int size
    err,         \* the exception that ended the call, if any
    log,         \* what the call has done so far, in order
    _gen,        \* SizedGenerator._gen
    _length,     \* SizedGenerator._length
    _index,      \* SizedGenerator._index
    op,          \* the last operation on the wrapper: send, throw, len, close
    arg,         \* its argument
    ret,         \* what it returned or raised
    touched,     \* whether it called into the underlying generator
    out,         \* the values send has returned so far
    sendRaised,  \* whether some send has raised
    thrown       \* whether throw has been called (by the caller or by close)

vars == <<size, pc, func, args, kwargs, fn_dict, resolved, err, log,
          _gen, _length, _index, op, arg, ret, touched, out, sendRaised, thrown>>

frame == <<func, args, kwargs, fn_dict>>
object == <<_gen, _length, _index>>
history == <<op, arg, ret, touched, out, sendRaised, thrown>>

\* ------------------------------------------------------------- inputs
Funcs ==
    {[args |-> SubSeq(Names, 1, n), defaults |-> d] :
        n \in 0..MaxParams, d \in SeqsUpTo(Vals, MaxParams)}

Signatures == {f \in Funcs : Len(f.defaults) <= Len(f.args)}

\* The keyword arguments of a call of f with positional arguments a: any of
\* the parameters not already given positionally (a call that gives one
\* parameter twice is rejected by func(*args, **kwargs) itself).
KwargsOf(f, a) ==
    UNION {[ks -> Vals] : ks \in SUBSET {f.args[i] : i \in (Len(a) + 1)..Len(f.args)}}

Keys == {Names[i] : i \in 1..MaxParams} \cup {str(i) : i \in 0..(MaxArgs - 1)}

SizeSpecs ==
    {[kind |-> "int", n |-> n, key |-> "", ret |-> ""] : n \in -1..MaxSize}
    \cup {[kind |-> "sized", n |-> n, key |-> "", ret |-> ""] : n \in 0..MaxSize}
    \cup {[kind |-> "other", n |-> 0, key |-> "", ret |-> ""]}
    \cup {[kind |-> "callable", n |-> 0, key |-> k, ret |-> r] :
            k \in Keys, r \in {"int", "sized", "other"}}

NoFunc == [args |-> <<>>, defaults |-> <<>>]

SendValues == {"None", "obj"}
Exceptions == {"RuntimeError", "ValueError"}
Bodies == {"yield", "return", "propagate"}

\* ------------------------------------------------------------- actions
Init ==
    /\ size \in SizeSpecs
    /\ pc = "idle"
    /\ func = NoFunc /\ args = <<>> /\ kwargs = <<>> /\ fn_dict = <<>>
    /\ resolved = 0 /\ err = NoRet /\ log = <<>>
    /\ _gen = NoGen /\ _length = 0 /\ _index = 0
    /\ op = "" /\ arg = "" /\ ret = NoRet /\ touched = FALSE
    /\ out = <<>> /\ sendRaised = FALSE /\ thrown = FALSE

\* a wrapper that calls func(*args, **kwargs) before it resolves the size
CallInvokesFirst(f, a, kw) ==
    /\ pc = "idle"
    /\ LET r == Resolve(size, f, a, kw)
       IN  /\ func' = f /\ args' = a /\ kwargs' = kw
           /\ fn_dict' = r.fn_dict
           /\ _gen' = NewGen
           /\ IF r.res.kind = "value"
              THEN /\ pc' = "invoked" /\ resolved' = r.res.v /\ err' = NoRet
                   /\ log' = log \o <<"invoke", "resolve">>
              ELSE /\ pc' = "failed" /\ resolved' = 0 /\ err' = r.res
                   /\ log' = log \o <<"invoke", "resolve_failed">>
    /\ UNCHANGED <<size, _length, _index, history>>

\* wrapper(*args, **kwargs) entered for a decorated func: lines 189-197
Call(f, a, kw) ==
    /\ pc = "idle"
    /\ LET r == Resolve(size, f, a, kw)
       IN  /\ func' = f /\ args' = a /\ kwargs' = kw
           /\ fn_dict' = r.fn_dict
           /\ IF r.res.kind = "value"
              THEN /\ pc' = "resolved" /\ resolved' = r.res.v /\ err' = NoRet
                   /\ log' = Append(log, "resolve")
              ELSE /\ pc' = "failed" /\ resolved' = 0 /\ err' = r.res
                   /\ log' = Append(log, "resolve_failed")
    /\ UNCHANGED <<size, object, history>>

\* func(*args, **kwargs), line 199: binds the arguments and returns a fresh
\* generator, or whatever else the function returns
Invoke(isgen) ==
    /\ pc = "resolved"
    /\ log' = Append(log, "invoke")
    /\ IF Binds(func, args, kwargs)
       THEN /\ pc' = "invoked" /\ err' = NoRet
            /\ _gen' = IF isgen THEN NewGen ELSE NotAGen
       ELSE /\ pc' = "failed" /\ err' = Raise("TypeError", "call", "")
            /\ _gen' = NoGen
    /\ func' = NoFunc /\ args' = <<>> /\ kwargs' = <<>> /\ fn_dict' = <<>>
    /\ UNCHANGED <<size, resolved, _length, _index, history>>

\* SizedGenerator(gen, size_like=resolved), line 199 and __init__
Construct ==
    /\ pc = "invoked"
    /\ LET o == __init__(_gen, [kind |-> "int", n |-> resolved])
       IN  /\ pc' = IF o.ok THEN "live" ELSE "failed"
           /\ err' = o.ret
           /\ log' = Append(log, IF o.ok THEN "construct" ELSE "construct_failed")
           /\ _length' = o.length /\ _index' = o.index
    /\ UNCHANGED <<size, frame, resolved, _gen, history>>

\* SizedGenerator(gen, size) called directly, as the tests do
Direct(isgen) ==
    /\ pc = "idle"
    /\ LET g == IF isgen THEN NewGen ELSE NotAGen
           o == __init__(g, size)
       IN  /\ _gen' = g
           /\ pc' = IF o.ok THEN "live" ELSE "failed"
           /\ err' = o.ret
           /\ log' = Append(log, IF o.ok THEN "construct" ELSE "construct_failed")
           /\ _length' = o.length /\ _index' = o.index
    /\ UNCHANGED <<size, frame, resolved, history>>

Send(value, body) ==
    /\ pc = "live"
    /\ LET r == send(_gen, _length, _index, value, body)
       IN  /\ _gen' = r.gen /\ _index' = r.index
           /\ op' = "send" /\ arg' = value /\ ret' = r.ret /\ touched' = r.touched
           /\ out' = IF r.ret.kind = "value" THEN Append(out, r.ret.v) ELSE out
           /\ sendRaised' = (sendRaised \/ r.ret.kind = "raise")
    /\ UNCHANGED <<size, pc, frame, resolved, err, log, _length, thrown>>

Throw(exc, body) ==
    /\ pc = "live"
    /\ LET r == throw(_gen, _length, _index, exc, body)
       IN  /\ _gen' = r.gen /\ _index' = r.index
           /\ op' = "throw" /\ arg' = exc /\ ret' = r.ret /\ touched' = r.touched
    /\ thrown' = TRUE
    /\ UNCHANGED <<size, pc, frame, resolved, err, log, _length, out, sendRaised>>

Close(body) ==
    /\ pc = "live"
    /\ LET r == close(_gen, _length, _index, body)
       IN  /\ _gen' = r.gen /\ _index' = r.index
           /\ op' = "close" /\ arg' = "" /\ ret' = r.ret /\ touched' = r.touched
    /\ thrown' = TRUE
    /\ UNCHANGED <<size, pc, frame, resolved, err, log, _length, out, sendRaised>>

\* a length query that counts as a step of the iteration
LengthConsumes ==
    /\ pc = "live"
    /\ op' = "len" /\ arg' = "" /\ ret' = Value(__len__(_length, _index)) /\ touched' = FALSE
    /\ _index' = _index + 1
    /\ UNCHANGED <<size, pc, frame, resolved, err, log, _gen, _length, out, sendRaised, thrown>>

Length ==
    /\ pc = "live"
    /\ op' = "len" /\ arg' = "" /\ ret' = Value(__len__(_length, _index)) /\ touched' = FALSE
    /\ UNCHANGED <<size, pc, frame, resolved, err, log, object, out, sendRaised, thrown>>

Next ==
    \/ /\ pc = "idle"
       /\ \E f \in Signatures : \E a \in SeqsUpTo(Vals, MaxArgs) : \E kw \in KwargsOf(f, a) :
             Call(f, a, kw)
    \/ \E isgen \in BOOLEAN : Invoke(isgen)
    \/ Construct
    \/ \E isgen \in BOOLEAN : Direct(isgen)
    \/ \E value \in SendValues : \E body \in {"yield", "return"} : Send(value, body)
    \/ \E exc \in Exceptions : \E body \in Bodies : Throw(exc, body)
    \/ \E body \in Bodies : Close(body)
    \/ Length

Spec == Init /\ [][Next]_vars

\* ------------------------------------------------------------- properties
remaining == __len__(_length, _index)

\* C1: a wrapper of declared size N >= 0 reports remaining() = N before any
\* advance and remaining() = N - k once advance has returned k items, k <= N
\* (every advance so far having returned an item).
C1_RemainingCountsConsumed ==
    (pc = "live" /\ _length >= 0 /\ ~sendRaised /\ Len(out) <= _length)
        => remaining = _length - Len(out)

C1_Witness ==
    /\ pc = "live" /\ _length = 2 /\ ~sendRaised /\ Len(out) = 2
    /\ op = "len" /\ ret = Value(0)

\* C2: a wrapper of declared size N >= 0 never returns more than N items
\* from advance.
C2_AtMostDeclaredSize ==
    (pc = "live" /\ _length >= 0) => Len(out) <= _length

\* C3: as long as no failure was injected, the k-th value advance returns is
\* the k-th value the underlying generator produces (the values 0, 1, ...),
\* and every value the generator has produced was returned by advance.
C3_SameElementsInOrder ==
    (pc = "live" /\ ~thrown) =>
        /\ \A k \in 1..Len(out) : out[k] = k - 1
        /\ Len(out) = _gen.pos

C3_Witness ==
    pc = "live" /\ ~thrown /\ _length = 2 /\ out = <<0, 1>> /\ _gen.pos = 2

\* C4: with a length-queryable size specification of length M and an
\* underlying generator that produces exactly M items, once all M items were
\* consumed and advance has signalled end-of-sequence, remaining() is zero.
C4_SizedExhaustedLeavesZero ==
    (/\ pc = "live" /\ size.kind = "sized" /\ ~thrown
     /\ Len(out) = _length /\ _gen.pos = _length /\ _gen.state = "closed"
     /\ _index = Len(out) + 1
     /\ op = "send" /\ ret.kind = "raise" /\ ret.exc = "StopIteration")
        => remaining = 0

\* the parameters of the call's function and what the call gives them
Params == 1..Len(func.args)
Required(i) == i <= Len(func.args) - Len(func.defaults)
Positional(i) == i <= Len(args)
Keyword(i) == func.args[i] \in DOMAIN kwargs
Used(i) ==
    IF Keyword(i) THEN kwargs[func.args[i]]
    ELSE IF Positional(i) THEN args[i]
    ELSE func.defaults[i - (Len(func.args) - Len(func.defaults))]

\* the call has built its argument mapping: the size specification is a
\* function and wrapper is past _resolve_args, with its frame still there
Mapped == size.kind = "callable" /\ Len(log) = 1 /\ err.site # "_resolve_args"

\* C5: in the argument mapping of every call that binds, each declared
\* parameter is there under its name and under its stringified index, with
\* the same value.
C5_NameAndIndexAgree ==
    (Mapped /\ Binds(func, args, kwargs)) =>
        \A i \in Params :
            /\ func.args[i] \in DictKeys(fn_dict)
            /\ str(i - 1) \in DictKeys(fn_dict)
            /\ DictGet(fn_dict, func.args[i]) = DictGet(fn_dict, str(i - 1))

\* C6: in the argument mapping of every call that binds, each declared
\* parameter name maps to the value the call uses for it: the keyword value,
\* else the positional argument at its index, else its default.
C6_NameMapsToUsedValue ==
    (Mapped /\ Binds(func, args, kwargs)) =>
        \A i \in Params :
            /\ func.args[i] \in DictKeys(fn_dict)
            /\ DictGet(fn_dict, func.args[i]) = Used(i)

\* C7: with a size function, building the mapping fails with the
\* missing-argument TypeError exactly when some parameter without default is
\* given neither positionally nor by keyword, and the error names that
\* parameter (the first such one in declaration order); otherwise the mapping
\* holds every parameter name and no sentinel.
Missing == {i \in Params : Required(i) /\ ~Positional(i) /\ ~Keyword(i)}

C7_MissingArgument ==
    (size.kind = "callable" /\ Len(log) = 1) =>
        IF Missing # {}
        THEN /\ pc = "failed"
             /\ err = Raise("TypeError", "_resolve_args",
                            func.args[CHOOSE i \in Missing : \A j \in Missing : i <= j])
        ELSE /\ err.site # "_resolve_args"
             /\ \A i \in Params : func.args[i] \in DictKeys(fn_dict)
             /\ \A j \in DOMAIN fn_dict : fn_dict[j][2] # null

C7_Witness ==
    /\ size.kind = "callable" /\ pc = "failed"
    /\ func.args = <<"a", "b">> /\ func.defaults = <<>>
    /\ Len(args) = 1 /\ kwargs = <<>>
    /\ err = Raise("TypeError", "_resolve_args", "b")

\* C8: a call whose size resolution fails (size specification of no usable
\* kind, size function returning no size, missing argument, failing size
\* function) has neither invoked the target function nor built a wrapper;
\* a call that built a wrapper resolved the size, then invoked the target,
\* then constructed.
ResolutionFailed ==
    err.kind = "raise" /\ err.site \in {"wrapper", "_get_size", "_resolve_args", "size"}

\* the wrapper function of the decorator was called (rather than
\* SizedGenerator directly)
Decorated == log # <<>> /\ log[1] \notin {"construct", "construct_failed"}

C8_FailFastOrder ==
    Decorated =>
        /\ ResolutionFailed => (pc = "failed" /\ log = <<"resolve_failed">> /\ _gen = NoGen)
        /\ (size.kind = "other" /\ pc # "idle") => ResolutionFailed
        /\ (size.kind = "callable" /\ Len(log) = 1 /\ Missing # {}) => ResolutionFailed
        /\ _gen # NoGen => (Len(log) >= 2 /\ SubSeq(log, 1, 2) = <<"resolve", "invoke">>)
        /\ pc = "live" => log = <<"resolve", "invoke", "construct">>

C8_Witness ==
    /\ pc = "failed" /\ size.kind = "callable" /\ size.ret = "other"
    /\ err = Raise("TypeError", "_get_size", "") /\ log = <<"resolve_failed">>
    /\ _gen = NoGen

\* C9: throw forwards to the underlying generator in every state of the
\* wrapper, exhausted or not: what the caller gets is what the generator's own
\* throw gives, the injected exception when the body does not catch it, the
\* yielded value when the body recovers; no exception comes from the wrapper.
C9_ThrowForwards ==
    [][op' = "throw" =>
          /\ touched'
          /\ \E body \in Bodies :
                /\ ret' = GenThrow(_gen, arg', body).ret
                /\ _gen' = GenThrow(_gen, arg', body).gen
          /\ ret'.kind = "raise" => ret'.site = "gen"
          /\ (_gen.state # "suspended") => ret' = Raise(arg', "gen", "")
          /\ ret'.kind = "value" => (ret'.v = _gen.pos /\ _gen'.pos = _gen.pos + 1)
      ]_vars

C9_Witness ==
    /\ pc = "live" /\ _index > _length /\ _length >= 0
    /\ op = "throw" /\ ret.kind = "value"

\* C10: a length query returns the integer _length - _index and changes
\* nothing of the wrapper or of the underlying generator, so that the next
\* advance gives what it would have given without the query.
C10_LengthIsPure ==
    [][op' = "len" =>
          /\ ret' = Value(_length - _index)
          /\ _index' = _index /\ _length' = _length /\ _gen' = _gen
          /\ out' = out
          /\ \A value \in SendValues : \A body \in {"yield", "return"} :
                send(_gen', _length', _index', value, body)
                    = send(_gen, _length, _index, value, body)
      ]_vars

C10_Witness ==
    pc = "live" /\ op = "len" /\ _index = 1 /\ _gen.pos = 1 /\ ret = Value(_length - 1)

\* C11: a wrapper built with a size <= 0 yields nothing: its advance signals
\* end-of-sequence itself, without calling the underlying generator.
C11_NonPositiveStartsExhausted ==
    (pc = "live" /\ _length <= 0) =>
        /\ out = <<>>
        /\ op = "send" => (~touched /\ ret = Raise("StopIteration", "send", ""))

\* C12: the advance or inject_failure that follows a close fails with
\* WrapperClosed.
C12_ClosedRefuses ==
    [][(op = "close" /\ ret = NoRet /\ op' \in {"send", "throw"})
          => (ret'.kind = "raise" /\ ret'.exc = "WrapperClosed" /\ ~touched')
      ]_vars

\* C13: the advance that follows an advance to which the underlying
\* generator signalled completion signals end-of-sequence without calling the
\* generator and without changing consumed_count.
C13_FinishedStaysExhausted ==
    [][(op = "send" /\ ret = Raise("StopIteration", "gen", "") /\ op' = "send")
          => (~touched' /\ _index' = _index /\ ret'.exc = "StopIteration")
      ]_vars

\* C14: an advance made while consumed_count <= total_size (the Active state
\* included) calls the underlying generator and lowers remaining() by exactly
\* one, whether the pull returns a value or raises.
C14_CountsBeforePull ==
    [][(op' = "send" /\ _index <= _length)
          => (touched' /\ _index' = _index + 1 /\ remaining' = remaining - 1)
      ]_vars

C14_Witness ==
    /\ pc = "live" /\ _length = 2 /\ _index = 1 /\ out = <<>>
    /\ op = "send" /\ touched /\ ret = Raise("TypeError", "gen", "")

\* C15: when advance has signalled end-of-sequence (no failure injected, no
\* earlier advance raised), the wrapper has yielded the M items of an
\* underlying generator that finished with M < N, and otherwise the N items
\* of its declared size.
C15_FirstToFinishGoverns ==
    (/\ pc = "live" /\ _length >= 0 /\ ~thrown /\ _index <= Len(out) + 1
     /\ op = "send" /\ ret.kind = "raise" /\ ret.exc = "StopIteration")
        => IF _gen.state = "closed" /\ _gen.pos < _length
           THEN Len(out) = _gen.pos /\ ret.site = "gen"
           ELSE Len(out) = _length

\* C16: an advance made with consumed_count > total_size signals
\* end-of-sequence itself, does not call the underlying generator and leaves
\* consumed_count as it is.
C16_RefusesBeyondSize ==
    [][(op' = "send" /\ _index > _length)
          => /\ ~touched' /\ ret' = Raise("StopIteration", "send", "")
             /\ _index' = _index /\ _gen' = _gen /\ out' = out
      ]_vars

C16_Witness ==
    /\ pc = "live" /\ _length = 1 /\ _index = 2 /\ _gen.state = "suspended"
    /\ op = "send" /\ ~touched /\ ret = Raise("StopIteration", "send", "")

\* C17: the size a decorated call resolves is the int itself, the length of
\* a Sized, the int-or-length of what a size function returns for the call's
\* argument mapping, and a TypeError for any other specification; the wrapper
\* built by that call has this size, resolved once.
C17_SizeResolution ==
    /\ (Decorated /\ Len(log) = 1) =>
          /\ size.kind \in {"int", "sized"} => (pc = "resolved" /\ resolved = size.n)
          /\ size.kind = "other" => (pc = "failed" /\ err = Raise("TypeError", "wrapper", ""))
          /\ (size.kind = "callable" /\ Missing = {}) =>
                IF size.key \notin DictKeys(fn_dict)
                THEN pc = "failed" /\ err = Raise("KeyError", "size", size.key)
                ELSE IF size.ret \in {"int", "sized"}
                THEN pc = "resolved" /\ resolved = DictGet(fn_dict, size.key)
                ELSE pc = "failed" /\ err = Raise("TypeError", "_get_size", "")
    /\ (Decorated /\ pc = "live") =>
          /\ _length = resolved
          /\ Cardinality({i \in DOMAIN log : log[i] = "resolve"}) = 1

C17_Witness ==
    /\ pc = "resolved" /\ size.kind = "callable" /\ size.ret = "sized" /\ size.key = "0"
    /\ args = <<1>> /\ resolved = 1

\* C18: constructing a wrapper fails with the TypeError of __init__ when the
\* wrapped value is no generator, with the TypeError of _get_size when the
\* size is neither int nor Sized, and builds nothing then; otherwise it gives
\* a wrapper with consumed_count 0 and total_size the int or the length.
C18_ConstructionValidates ==
    LET attempted == log # <<>> /\ log[Len(log)] \in {"construct", "construct_failed"}
        size_like == IF Decorated THEN [kind |-> "int", n |-> resolved] ELSE size
    IN  attempted =>
            IF _gen.state \notin {"created", "suspended", "closed"}
            THEN /\ pc = "failed" /\ err = Raise("TypeError", "__init__", "")
                 /\ _length = 0 /\ _index = 0 /\ op = ""
            ELSE IF size_like.kind \notin {"int", "sized"}
            THEN /\ pc = "failed" /\ err = Raise("TypeError", "_get_size", "")
                 /\ _length = 0 /\ _index = 0 /\ op = ""
            ELSE /\ pc = "live" /\ _length = size_like.n
                 /\ op = "" => _index = 0

C18_Witness ==
    /\ pc = "failed" /\ log = <<"construct_failed">> /\ size.kind = "callable"
    /\ _gen = NewGen /\ err = Raise("TypeError", "_get_size", "")

\* C19: inject_failure leaves consumed_count and total_size, and so
\* remaining(), as they were, also when it returns an item of the underlying
\* generator.
C19_ThrowKeepsCount ==
    [][op' = "throw"
          => (_index' = _index /\ _length' = _length /\ remaining' = remaining /\ out' = out)
      ]_vars

C19_Witness ==
    /\ pc = "live" /\ op = "throw" /\ ret = Value(1)
    /\ _index = 1 /\ _gen.pos = 2 /\ remaining = _length - 1

\* C20: in every state of a wrapper total_size is the size it was built with
\* and 0 <= consumed_count <= max(0, total_size + 1).
Declared == IF Decorated THEN resolved ELSE size.n

C20_IndexBounds ==
    pc = "live" =>
        /\ _length = Declared
        /\ 0 <= _index
        /\ _index <= (IF _length + 1 > 0 THEN _length + 1 ELSE 0)

C20_Witness ==
    pc = "live" /\ _length = 2 /\ _index = 3 /\ op = "close" /\ thrown /\ Len(out) = 2

====
